---- MODULE Spec2Model ----
(***************************************************************************)
(* Model of apod_desktop.py: the APOD download script whose core is a      *)
(* content-addressed de-duplication cache (sha256 of the image bytes,      *)
(* an sqlite table "images", and image files in a directory).              *)
(*                                                                         *)
(* Strings that the program inspects character by character (URLs, paths)  *)
(* are sequences of one-character strings; image bytes are sequences of    *)
(* byte values.                                                            *)
(***************************************************************************)
EXTENDS Integers, Sequences, FiniteSets, TLC

(* ---------------------------- bounds ----------------------------------- *)
MaxUrlLen == 3      \* longest remote identifier given to get_image_path alone
NumProcs  == 2      \* script processes that exist (Spec runs only one)

Procs    == 1..NumProcs
UrlChars == {"/", "a", "\n"}
DirPaths == {<<"d">>, <<"d", "/">>}     \* argv[1]: two spellings of one directory
Times    == {1, 2}                      \* values datetime.now() returns

\* Image contents a download returns: empty, and two contents of which one
\* is a proper prefix of the other.
Msgs == {<<>>, <<0>>, <<0, 1>>}

\* URLs the APOD service answers with in a run: no '/', nothing after the
\* final '/', the file name "a" under two different URLs, the file name "aa".
ApodUrls == {<<"a">>, <<"/">>, <<"/", "a">>, <<"a", "/", "a">>, <<"/", "a", "a">>}

None == "None"

SeqsUpTo(S, n) == UNION {[1..k -> S] : k \in 0..n}

Urls == SeqsUpTo(UrlChars, MaxUrlLen)

Range(s) == {s[i] : i \in DOMAIN s}
SetMin(S) == CHOOSE x \in S : \A y \in S : x <= y
SetMax(S) == CHOOSE x \in S : \A y \in S : x >= y

(* ------------------------- pure functions ------------------------------ *)

\* hashlib.sha256(image_msg).hexdigest(): the true digests of the contents
\* the model draws.
sha256(msg) ==
    CASE msg = <<>>      -> "e3b0c44298fc1c149afbf4c8996fb92427ae41e4649b934ca495991b7852b855"
      [] msg = <<0>>     -> "6e340b9cffb37a989ca544e6bb780a2c78901d3fb33738768511a30617afa01d"
      [] msg = <<0, 1>>  -> "b413f47d13ee2fe6c845b2ee141af81de858df4ec549a58b7970bb96645bc8d2"

\* First position >= i that holds a line break, or Len+1: where a run of
\* '.' (any character but a line break) starting at i must stop.
LineEnd(url, i) ==
    SetMin({k \in i..Len(url) : url[k] = "\n"} \cup {Len(url) + 1})

\* Positions of the '/' that `.*/` can end on when the match starts at i.
Slashes(url, i) == {j \in i..(LineEnd(url, i) - 1) : url[j] = "/"}

\* re.search(r".*/(.*)", image_url): leftmost start, both `.*` greedy.
\* Returns None when nothing matches, else group(1).
re_search(url) ==
    LET starts == {i \in 1..Len(url) : Slashes(url, i) # {}}
    IN  IF starts = {} THEN None
        ELSE LET i == SetMin(starts)
                 j == SetMax(Slashes(url, i))
             IN  SubSeq(url, j + 1, LineEnd(url, i) - 1)

\* os.path.join(dir_path, image_name) (posixpath)
path_join(a, b) ==
    IF Len(b) > 0 /\ b[1] = "/" THEN b
    ELSE IF Len(a) = 0 \/ a[Len(a)] = "/" THEN a \o b
    ELSE a \o <<"/">> \o b

\* get_image_path: None stands for the AttributeError raised by
\* url_search.group(1) when re.search returned None.
get_image_path(image_url, dir_path) ==
    LET url_search == re_search(image_url)
    IN  IF url_search = None THEN None
        ELSE path_join(dir_path, url_search)

\* A path ending in '/' names the (existing) directory: open(.., 'wb') fails.
IsDirPath(p) == Len(p) > 0 /\ p[Len(p)] = "/"

(* --------------------------- the database ------------------------------ *)
\* The sqlite file apod_images.db is modelled as
\*   [exists |-> the images table exists, rows |-> its rows in rowid order].
NoDb == [exists |-> FALSE, rows |-> <<>>]

\* Variant: DROP TABLE IF EXISTS images; CREATE TABLE images (...)
create_table_recreate(d) == [exists |-> TRUE, rows |-> <<>>]

\* CREATE TABLE IF NOT EXISTS images (...)
create_table(d) ==
    IF d.exists THEN d ELSE [exists |-> TRUE, rows |-> <<>>]

\* id integer PRIMARY KEY: sqlite assigns the largest rowid plus one.
next_id(rows) ==
    IF rows = <<>> THEN 1 ELSE SetMax({rows[i].id : i \in DOMAIN rows}) + 1

\* Variant: the values tuple lists the hash first and the path third.
insert_image_swapped(d, path, size, hash, now) ==
    [d EXCEPT !.rows = Append(@, [id            |-> next_id(d.rows),
                                  image_path    |-> hash,
                                  image_size    |-> ToString(size),
                                  hash          |-> path,
                                  downloaded_at |-> now])]

\* Variant: INSERT OR REPLACE that lands on the id of the newest row.
insert_image_replaceLast(d, path, size, hash, now) ==
    LET n == Len(d.rows)
        row == [id            |-> IF n = 0 THEN 1 ELSE d.rows[n].id,
                image_path    |-> path,
                image_size    |-> ToString(size),
                hash          |-> hash,
                downloaded_at |-> now]
    IN  [d EXCEPT !.rows = IF n = 0 THEN <<row>> ELSE [@ EXCEPT ![n] = row]]

\* Variant: hash is declared UNIQUE and the statement is INSERT OR IGNORE.
insert_image_unique(d, path, size, hash, now) ==
    IF \E i \in DOMAIN d.rows : d.rows[i].hash = hash THEN d
    ELSE [d EXCEPT !.rows = Append(@, [id            |-> next_id(d.rows),
                                       image_path    |-> path,
                                       image_size    |-> ToString(size),
                                       hash          |-> hash,
                                       downloaded_at |-> now])]

\* INSERT INTO images (image_path, image_size, hash, downloaded_at)
\* VALUES (?, ?, ?, ?): image_size is a TEXT column, so the integer is
\* stored as its decimal text.
insert_image(d, path, size, hash, now) ==
    [d EXCEPT !.rows = Append(@, [id            |-> next_id(d.rows),
                                  image_path    |-> path,
                                  image_size    |-> ToString(size),
                                  hash          |-> hash,
                                  downloaded_at |-> now])]

\* Variant: SELECT id FROM images WHERE image_path = ?
select_ids_byPath(d, hash) ==
    {d.rows[i].id : i \in {k \in DOMAIN d.rows : d.rows[k].image_path = hash}}

\* SELECT id FROM images WHERE hash = ?  (fetchall)
select_ids(d, hash) ==
    {d.rows[i].id : i \in {k \in DOMAIN d.rows : d.rows[k].hash = hash}}

\* Variant: len(results) <= 1 -> False
image_already_in_db_offByOne(d, hash) ==
    ~(Cardinality(select_ids(d, hash)) <= 1)

\* image_already_in_db's answer: len(results) < 1 -> False, else True
image_already_in_db(d, hash) == ~(Cardinality(select_ids(d, hash)) < 1)

(* --------------------------- the filesystem ---------------------------- *)
NoFiles == [q \in {} |-> <<>>]

\* Variant: the file is only opened and written when the content is
\* non-empty (if image_msg: ...).
write_file_skipEmpty(fs, path, content) ==
    IF content = <<>> THEN fs
    ELSE [q \in (DOMAIN fs) \cup {path} |-> IF q = path THEN content ELSE fs[q]]

\* Variant: open(image_path, 'ab') on a file that is never rewritten: an
\* existing file keeps its content.
write_file_keepExisting(fs, path, content) ==
    IF path \in DOMAIN fs THEN fs
    ELSE [q \in (DOMAIN fs) \cup {path} |-> IF q = path THEN content ELSE fs[q]]

\* open(image_path, 'wb') followed by file.write(content)
write_file(fs, path, content) ==
    [q \in (DOMAIN fs) \cup {path} |-> IF q = path THEN content ELSE fs[q]]

\* What a write that fails part-way can leave behind: the file was
\* truncated by open() and holds a proper prefix of the content.
Prefixes(msg) ==
    {SubSeq(msg, 1, k) : k \in 0..(IF Len(msg) = 0 THEN 0 ELSE Len(msg) - 1)}

(* ----------------------------- state ----------------------------------- *)
VARIABLES
    db,             \* apod_images.db
    files,          \* image files on disk: path -> content
    wallpaper,      \* path last given to SystemParametersInfoW, or None
    pc,             \* per process: position in main()
    dir_path,       \* per process: image_dir_path
    image_url,      \* per process: main's locals ...
    image_msg,
    image_sha256,
    image_size,
    image_path,
    trace,          \* per process: cache steps performed in the current run
    conn,           \* per process: the sqlite connection of the database
                    \* function called last, as that function exited
    stored          \* history: contents some run has stored (write + insert)

vars == <<db, files, wallpaper, pc, dir_path, image_url,
          image_msg, image_sha256, image_size, image_path, trace, conn,
          stored>>

locals == <<dir_path, image_url, image_msg, image_sha256, image_size, image_path>>

NoLocals == [p \in Procs |-> None]

Init ==
    /\ db = NoDb
    /\ files = NoFiles
    /\ wallpaper = None
    /\ pc = [p \in Procs |-> "idle"]
    /\ dir_path = NoLocals
    /\ image_url = NoLocals
    /\ image_msg = NoLocals
    /\ image_sha256 = NoLocals
    /\ image_size = NoLocals
    /\ image_path = NoLocals
    /\ trace = [p \in Procs |-> <<>>]
    /\ conn = [p \in Procs |-> "unopened"]
    /\ stored = {}

Running(p) == pc[p] \notin {"idle", "done", "aborted"}

\* The process of p ends, by returning from main ("done") or by an uncaught
\* exception ("aborted"), having performed the cache steps tr; its locals
\* die with it.
EndRun(p, how, tr) ==
    /\ pc' = [pc EXCEPT ![p] = how]
    /\ trace' = [trace EXCEPT ![p] = tr]
    /\ dir_path' = [dir_path EXCEPT ![p] = None]
    /\ image_url' = [image_url EXCEPT ![p] = None]
    /\ image_msg' = [image_msg EXCEPT ![p] = None]
    /\ image_sha256' = [image_sha256 EXCEPT ![p] = None]
    /\ image_size' = [image_size EXCEPT ![p] = None]
    /\ image_path' = [image_path EXCEPT ![p] = None]

Goto(p, where, tr) ==
    /\ pc' = [pc EXCEPT ![p] = where]
    /\ trace' = [trace EXCEPT ![p] = tr]

\* A database function of p returns: connect, execute, (commit,) close.
DbReturns(p) == conn' = [conn EXCEPT ![p] = "closed"]

\* A database function of p raises: either sqlite3.connect raised and there
\* is no connection, or execute/commit raised and the exception leaves the
\* function past its close() call, which is not in a finally clause.
DbRaises(p) == \E c \in {"unopened", "open"} : conn' = [conn EXCEPT ![p] = c]

(* ----------------------------- actions --------------------------------- *)

\* main, lines 33-41: a script process starts, takes its directory from
\* argv and calls create_image_db.  sqlite3.connect/execute may raise.
CreateImageDb(p) ==
    /\ ~Running(p)
    /\ \/ /\ db' = create_table(db)
          /\ DbReturns(p)
          /\ \E d \in DirPaths : dir_path' = [dir_path EXCEPT ![p] = d]
          /\ Goto(p, "get_apod_info", <<>>)
          /\ UNCHANGED <<image_url, image_msg, image_sha256, image_size,
                         image_path>>
       \/ /\ UNCHANGED db
          /\ DbRaises(p)
          /\ EndRun(p, "aborted", <<>>)
    /\ UNCHANGED <<files, wallpaper, stored>>

\* main, lines 44-47: get_apod_info returns the JSON dictionary on status
\* 200 and None otherwise; apod_info_dict['url'] on None raises TypeError.
GetApodInfo(p) ==
    /\ pc[p] = "get_apod_info"
    /\ \/ /\ \E url \in ApodUrls :
                image_url' = [image_url EXCEPT ![p] = url]
          /\ Goto(p, "download", trace[p])
          /\ UNCHANGED <<dir_path, image_msg, image_sha256, image_size,
                         image_path>>
       \/ EndRun(p, "aborted", Append(trace[p], "fetch:error"))
    /\ UNCHANGED <<db, files, wallpaper, conn, stored>>

\* Variant: download_apod_image returns b"" instead of None on a failed
\* request, so main goes on with empty content.
DownloadApodImage_emptyOnError(p) ==
    /\ pc[p] = "download"
    /\ \/ /\ \E msg \in Msgs :
                /\ image_msg' = [image_msg EXCEPT ![p] = msg]
                /\ image_sha256' = [image_sha256 EXCEPT ![p] = sha256(msg)]
                /\ image_size' = [image_size EXCEPT ![p] = Len(msg)]
          /\ Goto(p, "get_image_path", Append(trace[p], "hash"))
       \/ /\ image_msg' = [image_msg EXCEPT ![p] = <<>>]
          /\ image_sha256' = [image_sha256 EXCEPT ![p] = sha256(<<>>)]
          /\ image_size' = [image_size EXCEPT ![p] = 0]
          /\ Goto(p, "get_image_path", <<"fetch:error", "hash">>)
    /\ UNCHANGED <<db, files, wallpaper, conn, stored, dir_path, image_url,
                   image_path>>

\* main, lines 48-50: download_apod_image returns the content on status 200
\* and None otherwise; sha256(None) raises TypeError.
DownloadApodImage(p) ==
    /\ pc[p] = "download"
    /\ \/ /\ \E msg \in Msgs :
                /\ image_msg' = [image_msg EXCEPT ![p] = msg]
                /\ image_sha256' = [image_sha256 EXCEPT ![p] = sha256(msg)]
                /\ image_size' = [image_size EXCEPT ![p] = Len(msg)]
          /\ Goto(p, "get_image_path", Append(trace[p], "hash"))
          /\ UNCHANGED <<dir_path, image_url, image_path>>
       \/ EndRun(p, "aborted", Append(trace[p], "fetch:error"))
    /\ UNCHANGED <<db, files, wallpaper, conn, stored>>

\* main, lines 51-54
GetImagePath(p) ==
    /\ pc[p] = "get_image_path"
    /\ LET r == get_image_path(image_url[p], dir_path[p])
       IN  IF r = None
           THEN EndRun(p, "aborted", trace[p])
           ELSE /\ image_path' = [image_path EXCEPT ![p] = r]
                /\ Goto(p, "lookup", trace[p])
                /\ UNCHANGED <<dir_path, image_url, image_msg, image_sha256,
                               image_size>>
    /\ UNCHANGED <<db, files, wallpaper, conn, stored>>

\* Variant: the answer of line 57 is not acted on; lines 58-59 always run.
ImageAlreadyInDb_ignored(p) ==
    /\ pc[p] = "lookup"
    /\ \/ /\ db.exists
          /\ IF image_already_in_db(db, image_sha256[p])
             THEN Goto(p, "save", Append(trace[p], "lookup:hit"))
             ELSE Goto(p, "save", Append(trace[p], "lookup:miss"))
          /\ DbReturns(p)
          /\ UNCHANGED locals
       \/ /\ DbRaises(p)
          /\ EndRun(p, "aborted", Append(trace[p], "lookup:error"))
    /\ UNCHANGED <<db, files, wallpaper, stored>>

\* main, line 57: image_already_in_db.  The query may raise (database
\* unreachable, or no images table).
ImageAlreadyInDb(p) ==
    /\ pc[p] = "lookup"
    /\ \/ /\ db.exists
          /\ IF image_already_in_db(db, image_sha256[p])
             THEN Goto(p, "set_background", Append(trace[p], "lookup:hit"))
             ELSE Goto(p, "save", Append(trace[p], "lookup:miss"))
          /\ DbReturns(p)
          /\ UNCHANGED locals
       \/ /\ DbRaises(p)
          /\ EndRun(p, "aborted", Append(trace[p], "lookup:error"))
    /\ UNCHANGED <<db, files, wallpaper, stored>>

\* Variant: save_image_file catches the error of open()/write() and
\* returns, so main goes on to line 59.
SaveImageFile_swallow(p) ==
    /\ pc[p] = "save"
    /\ \/ /\ ~IsDirPath(image_path[p])
          /\ files' = write_file(files, image_path[p], image_msg[p])
          /\ Goto(p, "add", Append(trace[p], "write:ok"))
       \/ /\ UNCHANGED files
          /\ Goto(p, "add", Append(trace[p], "write:error"))
       \/ /\ ~IsDirPath(image_path[p])
          /\ \E part \in Prefixes(image_msg[p]) :
                files' = write_file(files, image_path[p], part)
          /\ Goto(p, "add", Append(trace[p], "write:error"))
    /\ UNCHANGED <<db, wallpaper, conn, stored, locals>>

\* main, line 58: save_image_file.  open() may raise and leave the disk as
\* it was (always, when the path names a directory); write() may raise
\* after open() truncated the file.
SaveImageFile(p) ==
    /\ pc[p] = "save"
    /\ \/ /\ ~IsDirPath(image_path[p])
          /\ files' = write_file(files, image_path[p], image_msg[p])
          /\ Goto(p, "add", Append(trace[p], "write:ok"))
          /\ UNCHANGED locals
       \/ /\ UNCHANGED files
          /\ EndRun(p, "aborted", Append(trace[p], "write:error"))
       \/ /\ ~IsDirPath(image_path[p])
          /\ \E part \in Prefixes(image_msg[p]) :
                files' = write_file(files, image_path[p], part)
          /\ EndRun(p, "aborted", Append(trace[p], "write:error"))
    /\ UNCHANGED <<db, wallpaper, conn, stored>>

\* Variant: add_image_to_db catches the sqlite error and returns, so main
\* goes on to line 62.
AddImageToDb_swallow(p) ==
    /\ pc[p] = "add"
    /\ \/ /\ db.exists
          /\ \E now \in Times :
                db' = insert_image(db, image_path[p], image_size[p],
                                   image_sha256[p], now)
          /\ stored' = stored \cup {image_msg[p]}
          /\ DbReturns(p)
          /\ Goto(p, "set_background", Append(trace[p], "insert:ok"))
       \/ /\ UNCHANGED <<db, stored>>
          /\ DbRaises(p)
          /\ Goto(p, "set_background", Append(trace[p], "insert:error"))
    /\ UNCHANGED <<files, wallpaper, locals>>

\* Variant: main calls add_image_to_db again after it raised.
AddImageToDb_retry(p) ==
    /\ pc[p] = "add"
    /\ \/ /\ db.exists
          /\ \E now \in Times :
                db' = insert_image(db, image_path[p], image_size[p],
                                   image_sha256[p], now)
          /\ stored' = stored \cup {image_msg[p]}
          /\ DbReturns(p)
          /\ Goto(p, "set_background", Append(trace[p], "insert:ok"))
       \/ /\ UNCHANGED <<db, stored>>
          /\ DbRaises(p)
          /\ Goto(p, "add", Append(trace[p], "insert:error"))
    /\ UNCHANGED <<files, wallpaper, locals>>

\* main, line 59: add_image_to_db.  execute/commit may raise; nothing is
\* committed then.
AddImageToDb(p) ==
    /\ pc[p] = "add"
    /\ \/ /\ db.exists
          /\ \E now \in Times :
                db' = insert_image(db, image_path[p], image_size[p],
                                   image_sha256[p], now)
          /\ stored' = stored \cup {image_msg[p]}
          /\ DbReturns(p)
          /\ Goto(p, "set_background", Append(trace[p], "insert:ok"))
          /\ UNCHANGED locals
       \/ /\ UNCHANGED <<db, stored>>
          /\ DbRaises(p)
          /\ EndRun(p, "aborted", Append(trace[p], "insert:error"))
    /\ UNCHANGED <<files, wallpaper>>

\* main, line 62
SetDesktopBackgroundImage(p) ==
    /\ pc[p] = "set_background"
    /\ wallpaper' = image_path[p]
    /\ EndRun(p, "done", trace[p])
    /\ UNCHANGED <<db, files, conn, stored>>

Step(p) ==
    \/ CreateImageDb(p)
    \/ GetApodInfo(p)
    \/ DownloadApodImage(p)
    \/ GetImagePath(p)
    \/ ImageAlreadyInDb(p)
    \/ SaveImageFile(p)
    \/ AddImageToDb(p)
    \/ SetDesktopBackgroundImage(p)

\* Single process: the script is run again and again, one run at a time.
Next == Step(1)

Spec == Init /\ [][Next]_vars

\* What the concurrent runs are given: one spelling of the directory, two
\* URLs with different file names, two non-empty contents.
ConcInputs(p) ==
    /\ Running(p) => dir_path[p] = <<"d">>
    /\ (Running(p) /\ pc[p] # "get_apod_info")
          => image_url[p] \in {<<"/", "a">>, <<"/", "a", "a">>}
    /\ (Running(p) /\ pc[p] \notin {"get_apod_info", "download"})
          => image_msg[p] \in {<<0>>, <<0, 1>>}

\* Several processes: every process runs the script once, and the steps of
\* the runs interleave at the calls of main (each database function is one
\* sqlite transaction, save_image_file one write).
NextConc ==
    \E p \in Procs :
        /\ pc[p] \notin {"done", "aborted"}
        /\ Step(p)
        /\ ConcInputs(p)'

SpecConc == Init /\ [][NextConc]_vars

\* get_image_path on its own: the run stands right after a download, with
\* any remote identifier up to MaxUrlLen.
InitPath ==
    /\ db = create_table(NoDb)
    /\ files = NoFiles
    /\ wallpaper = None
    /\ pc = [p \in Procs |-> IF p = 1 THEN "get_image_path" ELSE "idle"]
    /\ \E d \in DirPaths : dir_path = [NoLocals EXCEPT ![1] = d]
    /\ \E url \in Urls : image_url = [NoLocals EXCEPT ![1] = url]
    /\ \E msg \in Msgs :
          /\ image_msg = [NoLocals EXCEPT ![1] = msg]
          /\ image_sha256 = [NoLocals EXCEPT ![1] = sha256(msg)]
          /\ image_size = [NoLocals EXCEPT ![1] = Len(msg)]
    /\ image_path = NoLocals
    /\ trace = [p \in Procs |-> IF p = 1 THEN <<"hash">> ELSE <<>>]
    /\ conn = [p \in Procs |-> IF p = 1 THEN "closed" ELSE "unopened"]
    /\ stored = {}

NextPath == GetImagePath(1)

SpecPath == InitPath /\ [][NextPath]_vars

(* ------------------------ vocabulary of the claims --------------------- *)
RowsWith(hash) == {i \in DOMAIN db.rows : db.rows[i].hash = hash}

\* The claims' reading of a remote identifier: its final '/', whether a
\* non-empty segment follows it, and that segment.
LastSlash(url) == SetMax({i \in 1..Len(url) : url[i] = "/"} \cup {0})
HasTrailingSegment(url) == LastSlash(url) > 0 /\ LastSlash(url) < Len(url)
AfterFinalSlash(url) == SubSeq(url, LastSlash(url) + 1, Len(url))

StoredTrace == <<"hash", "lookup:miss", "write:ok", "insert:ok">>
SkipTrace   == <<"hash", "lookup:hit">>

\* p holds downloaded bytes and their fingerprint.
Downloaded(p) ==
    pc[p] \in {"get_image_path", "lookup", "save", "add", "set_background"}

\* The cache step of p has just finished without a failure.
CacheStepDone(p) == pc[p] = "set_background"

(* ------------------------------ claims --------------------------------- *)

\* C1: in the single-process setting, a failure-free cache run on bytes that
\* no earlier run has stored is a store (one file write, one insert) and a
\* failure-free cache run on bytes an earlier run has stored is a skip (no
\* file write, no insert), whatever the two candidate paths are; after
\* either, exactly one record bears the fingerprint of those bytes.
C1_StoreThenSkip ==
    [][\A p \in Procs :
          /\ (pc[p] = "lookup" /\ pc'[p] \in {"save", "set_background"})
                => (pc'[p] = "set_background" <=> image_msg[p] \in stored)
          /\ (pc'[p] = "set_background")
                => /\ trace'[p] = (IF image_msg[p] \in stored
                                   THEN SkipTrace ELSE StoredTrace)
                   /\ Cardinality({i \in DOMAIN db'.rows :
                         db'.rows[i].hash = image_sha256[p]}) = 1
      ]_vars

\* C1 witness: the second run on stored bytes has skipped, with a candidate
\* path other than the one the bytes were stored at, and that path holds no
\* file.
C1_Witness ==
    /\ CacheStepDone(1)
    /\ trace[1] = SkipTrace
    /\ image_msg[1] \in stored
    /\ \A i \in RowsWith(image_sha256[1]) :
          db.rows[i].image_path # image_path[1]
    /\ image_path[1] \notin DOMAIN files

\* C2: with non-overlapping runs, failed writes and failed inserts included,
\* no two records of the images table bear the same fingerprint.
C2_OneRecordPerFingerprint ==
    \A i, j \in DOMAIN db.rows :
        db.rows[i].hash = db.rows[j].hash => i = j

\* C2 witness: a run whose insert failed has ended while the table holds
\* records of two other fingerprints.
C2_Witness ==
    /\ pc[1] = "aborted"
    /\ trace[1] = <<"hash", "lookup:miss", "write:ok", "insert:error">>
    /\ Len(db.rows) >= 2

\* C3: the step in which save_image_file fails ends the run: the records
\* are as they were, the fingerprint is still absent, and no insert is
\* attempted in that run.  Equivalently, a record only ever enters the
\* table in a run that has written its bytes to its path.
C3_FailedWriteNoInsert ==
    [][/\ \A p \in Procs :
             ("write:error" \in Range(trace'[p]) /\ pc'[p] # pc[p])
                => /\ pc[p] = "save"
                   /\ pc'[p] = "aborted"
                   /\ db' = db
                   /\ ~image_already_in_db(db', image_sha256[p])
                   /\ trace'[p] = <<"hash", "lookup:miss", "write:error">>
       /\ (db'.rows # db.rows)
             => \E p \in Procs :
                   /\ trace[p] = <<"hash", "lookup:miss", "write:ok">>
                   /\ image_path[p] \in DOMAIN files
                   /\ files[image_path[p]] = image_msg[p]
                   /\ db'.rows[Len(db'.rows)].image_path = image_path[p]
                   /\ db'.rows[Len(db'.rows)].hash = sha256(image_msg[p])
      ]_vars

\* C3 witness: a run has aborted on a failed write that left a truncated
\* file behind, in a store that already holds records.
C3_Witness ==
    /\ pc[1] = "aborted"
    /\ trace[1] = <<"hash", "lookup:miss", "write:error">>
    /\ Len(db.rows) >= 1
    /\ \E q \in DOMAIN files :
          /\ files[q] = <<0>>
          /\ \A i \in DOMAIN db.rows : db.rows[i].image_path # q

\* C4: right after a run has stored bytes b at path p, a lookup of the
\* fingerprint of b answers true and the file at p holds exactly b.
C4_StoredRoundTrip ==
    \A p \in Procs :
        (CacheStepDone(p) /\ trace[p] = StoredTrace)
           => /\ image_already_in_db(db, sha256(image_msg[p]))
              /\ image_path[p] \in DOMAIN files
              /\ files[image_path[p]] = image_msg[p]

\* C4 witness: a two-byte image has just been stored over a file that held
\* something else before.
C4_Witness ==
    /\ CacheStepDone(1)
    /\ trace[1] = StoredTrace
    /\ image_msg[1] = <<0, 1>>
    /\ Len(db.rows) >= 2
    /\ \E i \in DOMAIN db.rows :
          /\ db.rows[i].image_path = image_path[1]
          /\ db.rows[i].hash # image_sha256[1]

\* C5: from a lookup that finds the fingerprint to the end of the run, no
\* step changes the files on disk or the images table.
C5_HitTouchesNothing ==
    [][\A p \in Procs :
          (Running(p) /\ "lookup:hit" \in Range(trace'[p]))
             => (files' = files /\ db' = db)
      ]_vars

\* C5 witness: a run that hit has ended, and its candidate path names no
\* file.
C5_Witness ==
    /\ pc[1] = "done"
    /\ trace[1] = SkipTrace
    /\ wallpaper # None
    /\ ~IsDirPath(wallpaper)
    /\ wallpaper \notin DOMAIN files

\* C6: the images table is append-only: every step keeps the table, keeps
\* every record at its place with the same id, path, size, fingerprint and
\* timestamp, and at most adds records after them.
C6_AppendOnly ==
    [][/\ db.exists => db'.exists
       /\ Len(db'.rows) >= Len(db.rows)
       /\ \A i \in DOMAIN db.rows : db'.rows[i] = db.rows[i]
      ]_vars

\* C6 witness: a third record has been appended behind two older ones.
C6_Witness ==
    /\ Len(db.rows) = 3
    /\ CacheStepDone(1)
    /\ trace[1] = StoredTrace
    /\ db.rows[3].hash = image_sha256[1]

\* C7: create_image_db on a store whose images table exists leaves the
\* table and all its records as they are, and its result is a fixed point:
\* a second call right after it gives the same store.
C7_CreateIdempotent ==
    [][\A p \in Procs :
          (~Running(p) /\ pc'[p] = "get_apod_info")
             => /\ db.exists => db' = db
                /\ db'.exists
                /\ create_table(db') = db'
      ]_vars

\* C7 witness: a run has called create_image_db on a table holding two
\* records.
C7_Witness ==
    /\ pc[1] = "get_apod_info"
    /\ Len(db.rows) = 2

\* C10: a failure-free run on the empty byte sequence, on a store without
\* its fingerprint, computes a 64-character fingerprint, leaves a
\* zero-length file at the candidate path and a record of size 0 for it,
\* and a lookup of the fingerprint then answers true.
C10_EmptyBytes ==
    \A p \in Procs :
       /\ (Downloaded(p) /\ image_msg[p] = <<>>)
             => /\ Len(image_sha256[p]) = 64
                /\ image_size[p] = 0
       /\ (CacheStepDone(p) /\ image_msg[p] = <<>> /\ trace[p] = StoredTrace)
             => /\ image_path[p] \in DOMAIN files
                /\ Len(files[image_path[p]]) = 0
                /\ \E i \in RowsWith(image_sha256[p]) :
                      /\ db.rows[i].image_size = "0"
                      /\ db.rows[i].image_path = image_path[p]
                /\ image_already_in_db(db, image_sha256[p])

\* C10 witness: the empty image has just been stored at a path that held no
\* file before any run.
C10_Witness ==
    /\ CacheStepDone(1)
    /\ image_msg[1] = <<>>
    /\ trace[1] = StoredTrace
    /\ files[image_path[1]] = <<>>
    /\ Len(db.rows) = 1

\* C8: get_image_path fails, and yields no path, for every remote
\* identifier that lacks a '/' followed by a non-empty segment.
\* (Stated as claimed; the code returns the directory path when the
\* identifier ends in '/'.)
C8_MalformedIdentifierFails ==
    [][\A p \in Procs :
          (pc[p] = "get_image_path" /\ pc'[p] # "get_image_path"
             /\ ~HasTrailingSegment(image_url[p]))
             => (pc'[p] = "aborted" /\ image_path'[p] = None)
      ]_vars

\* Supporting fact for C8: identifiers without any '/' do make
\* get_image_path fail.
GetImagePath_NoSlashFails ==
    [][\A p \in Procs :
          (pc[p] = "get_image_path" /\ pc'[p] # "get_image_path"
             /\ LastSlash(image_url[p]) = 0)
             => (pc'[p] = "aborted" /\ image_path'[p] = None)
      ]_vars

\* C9: for every remote identifier with a non-empty segment after its final
\* '/', get_image_path yields the base directory joined with exactly that
\* segment.
\* (Stated as claimed; the code's '.' stops at a line break, so it takes
\* the segment from the first line that has a '/'.)
C9_TrailingSegmentJoined ==
    [][\A p \in Procs :
          (pc[p] = "get_image_path" /\ pc'[p] # "get_image_path"
             /\ HasTrailingSegment(image_url[p]))
             => /\ pc'[p] = "lookup"
                /\ image_path'[p] =
                      path_join(dir_path[p], AfterFinalSlash(image_url[p]))
      ]_vars

\* Supporting fact for C9: the equation holds for identifiers without a
\* line break.
GetImagePath_OneLine ==
    [][\A p \in Procs :
          (pc[p] = "get_image_path" /\ pc'[p] # "get_image_path"
             /\ HasTrailingSegment(image_url[p])
             /\ "\n" \notin Range(image_url[p]))
             => /\ pc'[p] = "lookup"
                /\ image_path'[p] =
                      path_join(dir_path[p], AfterFinalSlash(image_url[p]))
                /\ UNCHANGED <<db, files>>
      ]_vars

\* C11: every connection opened by create_image_db, add_image_to_db or
\* image_already_in_db is closed when that function returns or raises.
\* (Stated as claimed; the code calls close() after execute/commit without
\* a finally clause, so an error in them leaves the function with the
\* connection open.)
C11_ConnectionsClosed ==
    \A p \in Procs : conn[p] # "open"

\* Supporting fact for C11: on the paths without an error the connection is
\* closed when the function returns.
ConnectionsClosedOnReturn ==
    \A p \in Procs : (Running(p) \/ pc[p] = "done") => conn[p] = "closed"

\* C12: the step in which add_image_to_db fails after a successful write
\* ends the run with the error; the bytes are on disk at the candidate path,
\* no record bears their fingerprint, a lookup of it answers false, and the
\* table, the other files and the desktop background are as they were.
C12_FailedInsertLeavesFile ==
    [][\A p \in Procs :
          ("insert:error" \in Range(trace'[p]) /\ pc'[p] # pc[p])
             => /\ pc[p] = "add"
                /\ pc'[p] = "aborted"
                /\ trace'[p] = <<"hash", "lookup:miss", "write:ok", "insert:error">>
                /\ db' = db
                /\ files' = files
                /\ wallpaper' = wallpaper
                /\ image_path[p] \in DOMAIN files'
                /\ files'[image_path[p]] = image_msg[p]
                /\ {i \in DOMAIN db'.rows :
                       db'.rows[i].hash = sha256(image_msg[p])} = {}
                /\ ~image_already_in_db(db', image_sha256[p])
      ]_vars

\* C12 witness: a run has aborted on a failed insert; the two-byte image is
\* on disk, no record bears its fingerprint, and an older record is intact.
C12_Witness ==
    /\ pc[1] = "aborted"
    /\ trace[1] = <<"hash", "lookup:miss", "write:ok", "insert:error">>
    /\ \E q \in DOMAIN files : files[q] = <<0, 1>>
    /\ RowsWith(sha256(<<0, 1>>)) = {}
    /\ Len(db.rows) = 1

\* The cache steps of a whole run, in order, for each way a run can go.
RunTraces ==
    { StoredTrace, SkipTrace,
      <<"fetch:error">>,
      <<"hash", "lookup:error">>,
      <<"hash", "lookup:miss", "write:error">>,
      <<"hash", "lookup:miss", "write:ok", "insert:error">> }

IsPrefix(s, t) == Len(s) <= Len(t) /\ SubSeq(t, 1, Len(s)) = s

\* C13: the cache steps of a run occur in the order fingerprint, lookup,
\* write, insert; write and insert happen at most once and only after a
\* lookup that missed, the insert only after the write, and a failed step
\* ends the run instead of being tried again.
C13_StepOrder ==
    \A p \in Procs :
       /\ \E t \in RunTraces : IsPrefix(trace[p], t)
       /\ (trace[p] # <<>> /\ trace[p][Len(trace[p])] \in
              {"fetch:error", "lookup:error", "write:error", "insert:error"})
             => pc[p] = "aborted"
       /\ pc[p] = "save" => trace[p] = <<"hash", "lookup:miss">>
       /\ pc[p] = "add" => trace[p] = <<"hash", "lookup:miss", "write:ok">>

\* C13 witness: a run that went through all four steps has ended, after an
\* earlier run had stored another image.
C13_Witness ==
    /\ pc[1] = "done"
    /\ trace[1] = StoredTrace
    /\ Len(db.rows) = 2

\* C15: bytes whose fingerprint is in no record are a cache miss even when
\* a record already names their derived path; storing them overwrites the
\* file at that path, so the older records of that path stay in the table
\* with fingerprints that no longer match the file, next to the new record,
\* whose fingerprint does.
C15_SameNameOverwrites ==
    [][\A p \in Procs :
          /\ (pc[p] = "lookup" /\ pc'[p] \in {"save", "set_background"}
                /\ RowsWith(image_sha256[p]) = {})
                => pc'[p] = "save"
          /\ (pc'[p] = "set_background" /\ trace'[p] = StoredTrace)
                => /\ image_path[p] \in DOMAIN files'
                   /\ files'[image_path[p]] = image_msg[p]
                   /\ Len(db'.rows) = Len(db.rows) + 1
                   /\ db'.rows[Len(db'.rows)].image_path = image_path[p]
                   /\ db'.rows[Len(db'.rows)].hash
                         = sha256(files'[image_path[p]])
                   /\ \A i \in DOMAIN db.rows :
                         db.rows[i].image_path = image_path[p]
                            => /\ db'.rows[i] = db.rows[i]
                               /\ db.rows[i].hash
                                     # sha256(files'[image_path[p]])
      ]_vars

\* C15 witness: two runs with different bytes and the same file name have
\* ended; two records name the one path, and the file holds the bytes of
\* the second record only.
C15_Witness ==
    /\ pc[1] = "done"
    /\ Len(db.rows) = 2
    /\ db.rows[1].image_path = db.rows[2].image_path
    /\ db.rows[1].hash # db.rows[2].hash
    /\ db.rows[2].image_path \in DOMAIN files
    /\ sha256(files[db.rows[2].image_path]) = db.rows[2].hash
    /\ sha256(files[db.rows[1].image_path]) # db.rows[1].hash

\* C16: whenever a run reaches set_desktop_background_image, the path it
\* passes names a file on disk whose content is the bytes downloaded in
\* that run.
\* (Stated as claimed; after a hit the code passes the path derived from
\* the current URL, not the path the bytes were stored at.)
C16_BackgroundFileMatches ==
    \A p \in Procs :
        pc[p] = "set_background"
           => /\ image_path[p] \in DOMAIN files
              /\ files[image_path[p]] = image_msg[p]

\* Supporting fact for C16: on the cache-miss branch the file is there and
\* holds the downloaded bytes.
BackgroundFileMatchesAfterStore ==
    \A p \in Procs :
        (pc[p] = "set_background" /\ "lookup:miss" \in Range(trace[p]))
           => /\ image_path[p] \in DOMAIN files
              /\ files[image_path[p]] = image_msg[p]

\* C17: the step in which get_apod_info or download_apod_image comes back
\* without a value ends the run: no cache step has been or is performed,
\* the files, the table and the desktop background are as they were, and
\* the table is what create_image_db left.
C17_FetchFailureAborts ==
    [][\A p \in Procs :
          ("fetch:error" \in Range(trace'[p]) /\ pc'[p] # pc[p])
             => /\ pc[p] \in {"get_apod_info", "download"}
                /\ pc'[p] = "aborted"
                /\ trace'[p] = <<"fetch:error">>
                /\ files' = files
                /\ db' = db
                /\ db'.exists
                /\ wallpaper' = wallpaper
      ]_vars

\* C17 witness: the first run ever has aborted on a failed fetch: the table
\* exists and is empty, there is no image file and no background was set.
C17_Witness ==
    /\ pc[1] = "aborted"
    /\ trace[1] = <<"fetch:error">>
    /\ db = [exists |-> TRUE, rows |-> <<>>]
    /\ files = NoFiles
    /\ wallpaper = None

\* C14: with interleaved runs the lookup and the insert are separate
\* steps: a lookup misses as long as no record bears the fingerprint, even
\* while another run is between its own miss and its insert; an insert
\* adds a record even when one with the same fingerprint exists (hash has
\* no uniqueness constraint); so two runs on identical bytes that both
\* looked up before either inserted both write, both insert, and leave two
\* records with one fingerprint.
C14_CheckThenActRace ==
    [][\A p \in Procs :
          /\ (pc[p] = "lookup" /\ pc'[p] \in {"save", "set_background"})
                => (pc'[p] = "save" <=> RowsWith(image_sha256[p]) = {})
          /\ (pc[p] = "add" /\ pc'[p] = "set_background")
                => Cardinality({i \in DOMAIN db'.rows :
                                   db'.rows[i].hash = image_sha256[p]})
                      = Cardinality(RowsWith(image_sha256[p])) + 1
          /\ \A q \in Procs \ {p} :
                (pc'[p] = "set_background" /\ pc'[q] = "set_background"
                   /\ trace'[p] = StoredTrace /\ trace'[q] = StoredTrace
                   /\ image_msg'[p] = image_msg'[q])
                   => Cardinality({i \in DOMAIN db'.rows :
                         db'.rows[i].hash = image_sha256'[p]}) >= 2
      ]_vars

\* C14 witness: two runs on the same bytes have both missed, written and
\* inserted; two records bear the one fingerprint.
C14_Witness ==
    /\ pc[1] = "set_background" /\ pc[2] = "set_background"
    /\ trace[1] = StoredTrace /\ trace[2] = StoredTrace
    /\ image_msg[1] = image_msg[2]
    /\ Cardinality(RowsWith(image_sha256[1])) = 2
    /\ ~C2_OneRecordPerFingerprint

====
